---- MODULE Spec2Model ----
(***************************************************************************)
(* Model of lib/platform/git/storage.js: the Storage class, which keeps    *)
(* one local working copy of a remote repository and offers branch-level   *)
(* operations on it.                                                       *)
(*                                                                         *)
(* Every public function of Storage is one action.  A function is a        *)
(* straight line of awaited calls on the git engine (simple-git); it is    *)
(* modelled as the script of those calls, run in order by Run until one    *)
(* of them fails.  A call of a mutating function fails either for a        *)
(* reason the repository state gives (no such ref, merge conflict,         *)
(* rejected push, ...) or because the environment makes it fail (network,  *)
(* disk): the action's input failAt names the call the environment makes   *)
(* fail, 0 for none.  Read-only plumbing calls on the local object         *)
(* database (show, show-branch, rev-parse, ls-tree, branch --list, log)    *)
(* fail only for a reason the repository state gives.  The file-system     *)
(* calls (fs.exists, fs.emptyDir, fs.writeFile) do not fail.               *)
(*                                                                         *)
(* Strings the code takes apart or puts together (branch names, ref        *)
(* names) are sequences of characters.  Commits are numbered in the order  *)
(* of their creation; a commit's number also serves as its author time in  *)
(* seconds.  History is kept whole (the shallow depth of 2 is not          *)
(* modelled).                                                              *)
(***************************************************************************)
EXTENDS Integers, Sequences, FiniteSets, TLC

\* ------------------------------------------------------------------ bounds
\* number of calls of initRepo and of the functions that change something in
\* one run (a run ends with a query, if it makes one)
MaxOps == 3

\* ----------------------------------------------------------------- strings
Empty == << >>
\* JavaScript's undefined (an argument left out) and null
Undefined == <<"undefined">>
Null == <<"null">>

\* truthiness of a string-or-undefined value, as `if (x)` and `x || y` test it
Truthy(x) == x # Undefined /\ x # Empty

\* the literal 'origin/' of the code
OriginPrefix == <<"o", "r", "i", "g", "i", "n", "/">>
\* the literal 'refs/remotes/origin/' of the code
RefsRemotesOrigin ==
  <<"r", "e", "f", "s", "/", "r", "e", "m", "o", "t", "e", "s", "/">> \o OriginPrefix

\* String.prototype.startsWith
StartsWith(s, p) == Len(p) <= Len(s) /\ SubSeq(s, 1, Len(p)) = p

\* s.replace(pat, rep) with a string pattern: the first occurrence only
ReplaceFirst(s, pat, rep) ==
  LET hits == {i \in 1..(Len(s) - Len(pat) + 1) : SubSeq(s, i, i + Len(pat) - 1) = pat}
  IN IF hits = {} THEN s
     ELSE LET i == CHOOSE k \in hits : \A j \in hits : k <= j
          IN SubSeq(s, 1, i - 1) \o rep \o SubSeq(s, i + Len(pat), Len(s))

IsSpace(ch) == ch \in {" ", "\n", "\t"}

\* String.prototype.trim
RECURSIVE Trim(_)
Trim(s) ==
  IF s = Empty THEN s
  ELSE IF IsSpace(Head(s)) THEN Trim(Tail(s))
  ELSE IF IsSpace(s[Len(s)]) THEN Trim(SubSeq(s, 1, Len(s) - 1))
  ELSE s

\* (a variant for comparison: the name left as git branch --remotes prints it)
localNameKeepsPrefix(branchName) == branchName

\* branchName.replace(/^origin\//, '')
localName(branchName) ==
  IF StartsWith(branchName, OriginPrefix)
  THEN SubSeq(branchName, Len(OriginPrefix) + 1, Len(branchName))
  ELSE branchName

\* 'origin/' + branchName
OriginRef(branchName) == OriginPrefix \o branchName

\* --------------------------------------------------------- the small world
Main == <<"m", "a", "i", "n">>
FX == <<"f", "/", "x">>
FY == <<"f", "/", "y">>
\* the branch names the remote and the working copy may hold
BranchNames == {Main, FX, FY}
\* the branch the remote's HEAD names
DefaultBranch == Main

Files == {"p", "q"}
Absent == 0
Contents == {1, 2}
Tree0 == [f \in Files |-> Absent]

Urls == {<<"url1">>}
Authors == {<<"bot">>}

\* no commit
NONE == 0
NoRefs == [b \in BranchNames |-> NONE]

\* ------------------------------------------------------------ commit graph
TreeOf(store, c) == IF c = NONE THEN Tree0 ELSE store[c].tree

RECURSIVE Ancestors(_, _)
Ancestors(store, c) ==
  IF c = NONE THEN {}
  ELSE {c} \cup UNION {Ancestors(store, p) : p \in store[c].parents}

\* c contains d: d is reachable from c
Contains(store, c, d) == d \in Ancestors(store, c)

\* the best common ancestors of a and b
MergeBases(store, a, b) ==
  LET common == Ancestors(store, a) \cap Ancestors(store, b)
  IN {c \in common : \A d \in common \ {c} : ~Contains(store, d, c)}

\* one file of a three-way merge; -1 is a conflict
ThreeWay(o, x, y) ==
  IF x = y THEN x ELSE IF x = o THEN y ELSE IF y = o THEN x ELSE -1

\* the three-way merge of the trees of ours and theirs over their merge base
\* (the newest one, should there be several)
MergedTree(store, ours, theirs) ==
  LET bases == MergeBases(store, ours, theirs)
      base == CHOOSE c \in bases : \A d \in bases : d <= c
  IN [f \in Files |->
        ThreeWay(store[base].tree[f], store[ours].tree[f], store[theirs].tree[f])]

\* merging theirs into ours stops on unrelated histories or on a conflict
MergeConflicts(store, ours, theirs) ==
  \/ MergeBases(store, ours, theirs) = {}
  \/ \E f \in Files : MergedTree(store, ours, theirs)[f] = -1

NewCommit(store, tree, parents) ==
  Append(store, [tree |-> tree, parents |-> parents])

\* ------------------------------------------------------- the working copy
\* The state the git engine works on is a record s:
\*   s.rem    the remote's branches (branch name -> commit, NONE if absent)
\*   s.store  all commit objects, by number
\*   s.wc     the working copy in repoDir:
\*     exists      .git/HEAD is there
\*     url         remote.origin.url
\*     user        user.name / user.email of the local git config
\*     originHead  the branch refs/remotes/origin/HEAD names
\*     tracking    the remote-tracking refs origin/<b>
\*     localBr     the local branches
\*     head        the checked-out branch
\*     index, wt   the index and the files of the working tree
\*     objects     the commits in the local object database
NoWc ==
  [exists |-> FALSE, url |-> Empty, user |-> Undefined, originHead |-> Undefined,
   tracking |-> NoRefs, localBr |-> NoRefs, head |-> Undefined,
   index |-> Tree0, wt |-> Tree0, objects |-> {}]

Ok(s) == [ok |-> TRUE, s |-> s]
Fail(s) == [ok |-> FALSE, s |-> s]

LocalOf(wc, name) == IF name \in BranchNames THEN wc.localBr[name] ELSE NONE
TrackingOf(wc, name) == IF name \in BranchNames THEN wc.tracking[name] ELSE NONE
HeadCommit(wc) == LocalOf(wc, wc.head)

\* git's resolution of a branch-like name to a commit: refs/heads/<name> comes
\* before refs/remotes/<name>; NONE when neither is there
ResolveRef(wc, name) ==
  IF ~wc.exists THEN NONE
  ELSE IF LocalOf(wc, name) # NONE THEN LocalOf(wc, name)
  ELSE IF StartsWith(name, OriginPrefix) THEN TrackingOf(wc, localName(name))
  ELSE NONE

\* switching index and working tree to tree t keeps local changes and untracked
\* files that t does not touch, and refuses to overwrite the others
CanSwitch(wc, t) == \A f \in Files : t[f] # wc.index[f] => wc.wt[f] = wc.index[f]
SwitchTree(wc, t) ==
  [wc EXCEPT !.index = t,
             !.wt = [f \in Files |-> IF t[f] # wc.index[f] THEN t[f] ELSE wc.wt[f]]]

\* git reset --hard: index and tracked files back to HEAD; untracked files stay
GitResetHard(s) ==
  LET wc == s.wc
      t == TreeOf(s.store, HeadCommit(wc))
  IN IF ~wc.exists \/ HeadCommit(wc) = NONE THEN Fail(s)
     ELSE Ok([s EXCEPT !.wc.index = t,
                       !.wc.wt = [f \in Files |->
                          IF wc.index[f] # Absent \/ t[f] # Absent THEN t[f] ELSE wc.wt[f]]])

\* git checkout -B <b> <start>: create or move local branch b to commit c and
\* check it out
CheckoutBAt(s, b, c) ==
  LET wc == s.wc
      t == TreeOf(s.store, c)
  IN IF ~wc.exists \/ c = NONE \/ c \notin wc.objects \/ ~CanSwitch(wc, t) THEN Fail(s)
     ELSE Ok([s EXCEPT !.wc = [SwitchTree(wc, t) EXCEPT !.localBr[b] = c, !.head = b]])

\* (a variant for comparison: the start point not given, so that the branch
\* starts at HEAD)
GitCheckoutBNoStartPoint(s, b, ref) == CheckoutBAt(s, b, HeadCommit(s.wc))

\* git checkout -B <b> <ref>
GitCheckoutB(s, b, ref) == CheckoutBAt(s, b, ResolveRef(s.wc, ref))

\* git checkout <name>: the local branch, or a new local branch from origin/<name>
GitCheckout(s, name) ==
  LET wc == s.wc
      c == IF LocalOf(wc, name) # NONE THEN LocalOf(wc, name) ELSE TrackingOf(wc, name)
  IN IF name \notin BranchNames THEN Fail(s) ELSE CheckoutBAt(s, name, c)

\* git merge <b> into the checked-out branch
GitMerge(s, b) ==
  LET wc == s.wc
      ours == HeadCommit(wc)
      theirs == LocalOf(wc, b)
  IN IF ~wc.exists \/ ours = NONE \/ theirs = NONE THEN Fail(s)
     ELSE IF Contains(s.store, ours, theirs) THEN Ok(s)
     ELSE IF Contains(s.store, theirs, ours)
       THEN CheckoutBAt(s, wc.head, theirs)
     ELSE IF MergeConflicts(s.store, ours, theirs) THEN Fail(s)
     ELSE LET t == MergedTree(s.store, ours, theirs)
              st == NewCommit(s.store, t, {ours, theirs})
          IN IF ~CanSwitch(wc, t) THEN Fail(s)
             ELSE Ok([s EXCEPT !.store = st,
                               !.wc = [SwitchTree(wc, t) EXCEPT
                                         !.localBr[wc.head] = Len(st),
                                         !.objects = @ \cup {Len(st)}]])

\* fs.writeFile(join(repoDir, name), contents)
FsWriteFile(s, name, contents) == Ok([s EXCEPT !.wc.wt[name] = contents])

\* (a variant for comparison: everything in the working tree staged)
GitAddAll(s, names) ==
  IF ~s.wc.exists THEN Fail(s) ELSE Ok([s EXCEPT !.wc.index = s.wc.wt])

\* git add <names>
GitAdd(s, names) ==
  LET wc == s.wc
  IN IF ~wc.exists \/ \E f \in names : wc.wt[f] = Absent THEN Fail(s)
     ELSE Ok([s EXCEPT !.wc.index =
                 [f \in Files |-> IF f \in names THEN wc.wt[f] ELSE wc.index[f]]])

\* git commit -m <message>: a commit of the index on the checked-out branch;
\* with nothing staged no commit is made
GitCommit(s) ==
  LET wc == s.wc
      st == NewCommit(s.store, wc.index, {HeadCommit(wc)})
  IN IF ~wc.exists \/ HeadCommit(wc) = NONE THEN Fail(s)
     ELSE IF wc.index = TreeOf(s.store, HeadCommit(wc)) THEN Ok(s)
     ELSE Ok([s EXCEPT !.store = st,
                       !.wc.localBr[wc.head] = Len(st),
                       !.wc.objects = @ \cup {Len(st)}])

\* (a variant for comparison: the push leaves the remote-tracking ref behind)
GitPushForceNoTracking(s, b) ==
  LET c == LocalOf(s.wc, b)
  IN IF ~s.wc.exists \/ c = NONE THEN Fail(s)
     ELSE Ok([s EXCEPT !.rem[b] = c])

\* git push origin <b> --force: the remote's b and origin/b become local b
GitPushForce(s, b) ==
  LET c == LocalOf(s.wc, b)
  IN IF ~s.wc.exists \/ c = NONE THEN Fail(s)
     ELSE Ok([s EXCEPT !.rem[b] = c, !.wc.tracking[b] = c])

\* (a variant for comparison: every local branch pushed, as push --all does)
GitPushAll(s, b) ==
  LET c == LocalOf(s.wc, b)
      mine == [x \in BranchNames |->
                 IF s.wc.localBr[x] # NONE THEN s.wc.localBr[x] ELSE s.rem[x]]
  IN IF ~s.wc.exists \/ c = NONE THEN Fail(s)
     ELSE IF s.rem[b] # NONE /\ ~Contains(s.store, c, s.rem[b]) THEN Fail(s)
     ELSE Ok([s EXCEPT !.rem = mine, !.wc.tracking = mine])

\* git push origin <b>: as above, but rejected unless it is a fast-forward
GitPush(s, b) ==
  LET c == LocalOf(s.wc, b)
  IN IF ~s.wc.exists \/ c = NONE THEN Fail(s)
     ELSE IF s.rem[b] # NONE /\ ~Contains(s.store, c, s.rem[b]) THEN Fail(s)
     ELSE Ok([s EXCEPT !.rem[b] = c, !.wc.tracking[b] = c])

\* (a variant for comparison: the remote-tracking ref outlives the deletion)
GitPushDeleteKeepsTracking(s, b) ==
  IF ~s.wc.exists \/ b \notin BranchNames THEN Fail(s)
  ELSE IF s.rem[b] = NONE \/ b = DefaultBranch THEN Fail(s)
  ELSE Ok([s EXCEPT !.rem[b] = NONE])

\* git push --delete origin <b>: the remote refuses to delete a branch it does
\* not have, and the branch its HEAD names
GitPushDelete(s, b) ==
  IF ~s.wc.exists \/ b \notin BranchNames THEN Fail(s)
  ELSE IF s.rem[b] = NONE \/ b = DefaultBranch THEN Fail(s)
  ELSE Ok([s EXCEPT !.rem[b] = NONE, !.wc.tracking[b] = NONE])

\* git branch -d <b>: refused for a missing branch, the checked-out branch and a
\* branch not merged into HEAD
GitDeleteLocalBranch(s, b) ==
  LET wc == s.wc
  IN IF ~wc.exists \/ LocalOf(wc, b) = NONE \/ wc.head = b THEN Fail(s)
     ELSE IF ~Contains(s.store, HeadCommit(wc), LocalOf(wc, b)) THEN Fail(s)
     ELSE Ok([s EXCEPT !.wc.localBr[b] = NONE])

\* the commits a transfer of the remote's branches brings
RemoteObjects(s) == UNION {Ancestors(s.store, s.rem[b]) : b \in BranchNames}

\* fs.emptyDir(repoDir)
FsEmptyDir(s) == Ok([s EXCEPT !.wc = NoWc])

\* git clone <url> . --no-single-branch: a fresh working copy with a
\* remote-tracking ref for every branch of the remote and the remote's default
\* branch checked out
GitClone(s, url) ==
  LET c == s.rem[DefaultBranch]
  IN IF s.wc.exists THEN Fail(s)
     ELSE Ok([s EXCEPT !.wc =
            [exists |-> TRUE, url |-> url, user |-> Undefined,
             originHead |-> IF c = NONE THEN Undefined ELSE DefaultBranch,
             tracking |-> s.rem,
             localBr |-> [NoRefs EXCEPT ![DefaultBranch] = c],
             head |-> IF c = NONE THEN Undefined ELSE DefaultBranch,
             index |-> TreeOf(s.store, c), wt |-> TreeOf(s.store, c),
             objects |-> RemoteObjects(s)]])

\* git remote set-url origin <url>
GitSetUrl(s, url) ==
  IF ~s.wc.exists THEN Fail(s) ELSE Ok([s EXCEPT !.wc.url = url])

\* git fetch: the remote-tracking refs of the remote's branches follow the remote
GitFetch(s) ==
  IF ~s.wc.exists THEN Fail(s)
  ELSE Ok([s EXCEPT !.wc.tracking =
                      [b \in BranchNames |-> IF s.rem[b] # NONE THEN s.rem[b] ELSE @[b]],
                    !.wc.objects = @ \cup RemoteObjects(s)])

\* git remote prune origin: remote-tracking refs of branches the remote lost go
GitPrune(s) ==
  IF ~s.wc.exists THEN Fail(s)
  ELSE Ok([s EXCEPT !.wc.tracking =
                      [b \in BranchNames |-> IF s.rem[b] = NONE THEN NONE ELSE @[b]]])

\* git config user.name <name>, then user.email <address>: the identity is
\* whole once both are set
GitConfigName(s, author) ==
  IF ~s.wc.exists THEN Fail(s) ELSE Ok([s EXCEPT !.wc.user = <<"name-only">>])
GitConfigEmail(s, author) ==
  IF ~s.wc.exists THEN Fail(s) ELSE Ok([s EXCEPT !.wc.user = author])
\* git config commit.gpgsign false
GitConfigGpgsign(s) == IF ~s.wc.exists THEN Fail(s) ELSE Ok(s)

\* git symbolic-ref refs/remotes/origin/HEAD
GitSymbolicRef(s) ==
  IF ~s.wc.exists \/ s.wc.originHead = Undefined THEN Fail(s) ELSE Ok(s)
\* what it prints
SymbolicRefOut(wc) == RefsRemotesOrigin \o wc.originHead \o <<"\n">>

\* one call on the engine
Exec(s, cmd) ==
  CASE cmd.c = "reset" -> GitResetHard(s)
    [] cmd.c = "checkoutB" -> GitCheckoutB(s, cmd.b, cmd.ref)
    [] cmd.c = "checkoutSha" -> CheckoutBAt(s, cmd.b, cmd.sha)
    [] cmd.c = "checkout" -> GitCheckout(s, cmd.b)
    [] cmd.c = "merge" -> GitMerge(s, cmd.b)
    [] cmd.c = "writeFile" -> FsWriteFile(s, cmd.name, cmd.contents)
    [] cmd.c = "add" -> GitAdd(s, cmd.names)
    [] cmd.c = "commit" -> GitCommit(s)
    [] cmd.c = "pushForce" -> GitPushForce(s, cmd.b)
    [] cmd.c = "push" -> GitPush(s, cmd.b)
    [] cmd.c = "pushDelete" -> GitPushDelete(s, cmd.b)
    [] cmd.c = "deleteLocal" -> GitDeleteLocalBranch(s, cmd.b)
    [] cmd.c = "emptyDir" -> FsEmptyDir(s)
    [] cmd.c = "clone" -> GitClone(s, cmd.url)
    [] cmd.c = "setUrl" -> GitSetUrl(s, cmd.url)
    [] cmd.c = "fetch" -> GitFetch(s)
    [] cmd.c = "prune" -> GitPrune(s)
    [] cmd.c = "configName" -> GitConfigName(s, cmd.author)
    [] cmd.c = "configEmail" -> GitConfigEmail(s, cmd.author)
    [] cmd.c = "configGpgsign" -> GitConfigGpgsign(s)
    [] cmd.c = "symbolicRef" -> GitSymbolicRef(s)
    [] cmd.c = "Git" -> Ok(s)

\* the calls the environment can make fail: those on the git engine
EnvCanFail(c) == c \notin {"Git", "emptyDir", "writeFile"}
\* failAt is a choice the environment has for this script
FailChoice(script, failAt) ==
  IF failAt = 0 THEN TRUE
  ELSE failAt <= Len(script) /\ EnvCanFail(script[failAt].c)

\* The awaited calls of a function body, in order, from call i on: each runs
\* on the state the one before left; the first that fails (by itself, or
\* because the environment fails call failAt) ends the run, and the calls
\* after it are not made.  n is the number of calls made.
\* (a variant for comparison: a failed call is passed over and the calls after
\* it are made)
RECURSIVE RunPastFailure(_, _, _, _)
RunPastFailure(s, script, failAt, i) ==
  IF i > Len(script) THEN [ok |-> TRUE, s |-> s, n |-> Len(script)]
  ELSE LET r == IF i = failAt THEN Fail(s) ELSE Exec(s, script[i])
       IN RunPastFailure(r.s, script, failAt, i + 1)

RECURSIVE Run(_, _, _, _)
Run(s, script, failAt, i) ==
  IF i > Len(script) THEN [ok |-> TRUE, s |-> s, n |-> Len(script)]
  ELSE LET r == IF i = failAt THEN Fail(s) ELSE Exec(s, script[i])
       IN IF r.ok THEN Run(r.s, script, failAt, i + 1)
          ELSE [ok |-> FALSE, s |-> r.s, n |-> i]

\* the names of the first n calls of a script
Calls(script, n) == [i \in 1..n |-> script[i].c]

\* --------------------------------------------------------------- the state
VARIABLES
  rem,     \* the remote's branches
  store,   \* the commit objects
  wc,      \* the working copy in repoDir
  config,  \* the closure variable config: url, baseBranch, gitAuthor
  git,     \* the closure variable git: 0 for null, else the number of the
           \* handle it holds, handles being numbered as Git() makes them
  inited,  \* the last initRepo completed without an error
  res,     \* the last call: function, arguments, outcome
  pre,     \* the remote, working copy and config when the last call began
  nops,    \* calls made so far
  conc     \* the calls in progress when calls are made without awaiting the
           \* one before (empty when each call is awaited)

vars == <<rem, store, wc, config, git, inited, res, pre, nops, conc>>

Engine == [rem |-> rem, store |-> store, wc |-> wc]
Snapshot == [rem |-> rem, wc |-> wc, config |-> config, git |-> git, n |-> Len(store)]

\* The commits there are at the start: main holds file p; f/x adds file q to
\* it; and, in the second world, someone has since pushed a change of p to main.
Store0 ==
  << [tree |-> [Tree0 EXCEPT !["p"] = 1], parents |-> {}],
     [tree |-> [Tree0 EXCEPT !["p"] = 1, !["q"] = 1], parents |-> {1}] >>
Store1 == Append(Store0, [tree |-> [Tree0 EXCEPT !["p"] = 2], parents |-> {1}])

\* the working copy an earlier run of the program left in repoDir: a clone made
\* when main was at commit 1
OldWc ==
  [exists |-> TRUE, url |-> <<"url1">>, user |-> Undefined, originHead |-> Main,
   tracking |-> [NoRefs EXCEPT ![Main] = 1, ![FX] = 2],
   localBr |-> [NoRefs EXCEPT ![Main] = 1], head |-> Main,
   index |-> Store0[1].tree, wt |-> Store0[1].tree, objects |-> {1, 2}]

\* After construction config is {} and git is null.  repoDir is empty (first
\* world), or holds the working copy of an earlier run, behind the remote
\* (second world).
Init ==
  /\ \/ /\ store = Store0
        /\ rem = [NoRefs EXCEPT ![Main] = 1, ![FX] = 2]
        /\ wc = NoWc
     \/ /\ store = Store1
        /\ rem = [NoRefs EXCEPT ![Main] = 3, ![FX] = 2]
        /\ wc = OldWc
  /\ config = [url |-> Undefined, baseBranch |-> Undefined, gitAuthor |-> Undefined]
  /\ git = 0
  /\ inited = FALSE
  /\ res = [op |-> "constructor", args |-> << >>, ok |-> TRUE, ret |-> Undefined,
            calls |-> << >>, env |-> FALSE]
  /\ pre = Snapshot
  /\ nops = 0
  /\ conc = << >>

\* In a call's record, env says that the environment failed one of the calls
\* made.
\* what a call leaves behind: the engine state e, its record, and the snapshot
\* of the state it began in
Finish(e, r) ==
  /\ rem' = e.rem
  /\ store' = e.store
  /\ wc' = e.wc
  /\ res' = r
  /\ pre' = Snapshot
  /\ nops' = nops + 1
  /\ UNCHANGED conc

\* A function whose body is a script of awaited engine calls and nothing else:
\* with git still null the first call throws; otherwise the calls run until one
\* fails, and that failure is the function's.
RunBody(script, failAt) ==
  IF git = 0 THEN [ok |-> FALSE, s |-> Engine, n |-> 0]
  ELSE Run(Engine, script, failAt, 1)

\* A query changes nothing but its own record, so what can follow a query is
\* what can follow the state it was asked in: the runs explored make their
\* queries last.
QueryOps ==
  {"branchExists", "getBranchCommit", "getFileList", "getFile",
   "getAllRenovateBranches", "isBranchStale", "getBranchLastCommitTime",
   "getCommitMessages"}
Asked == res.op \in QueryOps

Outcome(op, args, script, failAt, r) ==
  [op |-> op, args |-> args, ok |-> r.ok, ret |-> Undefined,
   calls |-> Calls(script, r.n), env |-> (failAt # 0 /\ r.n >= failAt)]

\* ---------------------------------------------------------------- initRepo
\* the configs tried: nothing but the url; a base branch and an author
InitArgs ==
  {[url |-> u, baseBranch |-> Undefined, gitAuthor |-> Undefined] : u \in Urls}
  \cup {[url |-> u, baseBranch |-> FX, gitAuthor |-> a] : u \in Urls, a \in Authors}

RefreshScript(args) ==
  << [c |-> "Git"], [c |-> "setUrl", url |-> args.url], [c |-> "fetch"],
     [c |-> "prune"] >>

\* (a variant for comparison: the clone made without emptying the directory)
CloneScriptNoEmptyDir(args) ==
  << [c |-> "Git"], [c |-> "clone", url |-> args.url] >>

CloneScript(args) ==
  << [c |-> "emptyDir"], [c |-> "Git"], [c |-> "clone", url |-> args.url] >>

AuthorScript(args) ==
  IF args.gitAuthor # Undefined
  THEN << [c |-> "configName", author |-> args.gitAuthor],
          [c |-> "configEmail", author |-> args.gitAuthor],
          [c |-> "configGpgsign"] >>
  ELSE << >>

BaseScript(args) ==
  IF Truthy(args.baseBranch) THEN << >> ELSE << [c |-> "symbolicRef"] >>

\* config.baseBranch || symbolic-ref(...).replace('refs/remotes/origin/', '').trim()
ResolveBaseBranch(given, w) ==
  IF Truthy(given) THEN given
  ELSE Trim(ReplaceFirst(SymbolicRefOut(w), RefsRemotesOrigin, Empty))

\* (a variant for comparison: args laid over the config there was, whose fields
\* stay where args has none)
SpreadArgsOverConfig(args) ==
  [url |-> args.url,
   gitAuthor |-> IF args.gitAuthor = Undefined THEN config.gitAuthor ELSE args.gitAuthor,
   baseBranch |-> IF args.baseBranch = Undefined THEN config.baseBranch
                  ELSE args.baseBranch]

\* config = { ...args }: the fields of args and no others
SpreadArgs(args) ==
  [url |-> args.url, gitAuthor |-> args.gitAuthor, baseBranch |-> args.baseBranch]

\* the handles a run of calls made: one for each Git(repoDir)
HandlesMade(calls) == Cardinality({i \in 1..Len(calls) : calls[i] = "Git"})

\* initRepo(args): testMode is NODE_ENV === 'test'; failRefresh and failRest are
\* the calls the environment fails inside and after the try block
InitRepo(args, testMode, failRefresh, failRest) ==
  LET cfg == SpreadArgs(args)
      attempt == ~testMode /\ wc.exists
      refresh == RefreshScript(cfg)
      r1 == Run(Engine, refresh, failRefresh, 1)
      clone == ~(attempt /\ r1.ok)
      s1 == IF attempt THEN r1.s ELSE Engine
      calls1 == IF attempt THEN Calls(refresh, r1.n) ELSE << >>
      rest == (IF clone THEN CloneScript(cfg) ELSE << >>)
                \o AuthorScript(cfg) \o BaseScript(cfg)
      r2 == Run(s1, rest, failRest, 1)
  IN /\ IF attempt THEN FailChoice(refresh, failRefresh) ELSE failRefresh = 0
     /\ FailChoice(rest, failRest)
     /\ git' = git + HandlesMade(calls1 \o Calls(rest, r2.n))
     /\ inited' = r2.ok
     /\ config' = IF r2.ok
                  THEN [cfg EXCEPT !.baseBranch = ResolveBaseBranch(cfg.baseBranch, r2.s.wc)]
                  ELSE cfg
     /\ Finish(r2.s,
               [op |-> "initRepo", args |-> args, ok |-> r2.ok, ret |-> Undefined,
                calls |-> calls1 \o Calls(rest, r2.n),
                env |-> (failRest # 0 /\ r2.n >= failRest),
                testMode |-> testMode, failRefresh |-> failRefresh])

\* -------------------------------------------------------------- createBranch
\* (a variant for comparison: the start point left out of the checkout, which
\* then starts the branch at HEAD)
CreateBranchScriptNoStartPoint(branchName, sha) ==
  << [c |-> "reset"],
     [c |-> "checkoutSha", b |-> branchName, sha |-> HeadCommit(wc)],
     [c |-> "pushForce", b |-> branchName] >>

CreateBranchScript(branchName, sha) ==
  << [c |-> "reset"], [c |-> "checkoutSha", b |-> branchName, sha |-> sha],
     [c |-> "pushForce", b |-> branchName] >>

CreateBranch(branchName, sha, failAt) ==
  LET script == CreateBranchScript(branchName, sha)
      r == RunBody(script, failAt)
  IN /\ inited
     /\ FailChoice(script, failAt)
     /\ UNCHANGED <<config, git, inited>>
     /\ Finish(r.s, Outcome("createBranch", [branchName |-> branchName, sha |-> sha],
                            script, failAt, r))

\* ------------------------------------------------------- commitFilesToBranch
\* the files arguments tried: sequences of {name, contents}
FileLists ==
  { << [name |-> "p", contents |-> 2] >>,
    << [name |-> "q", contents |-> 2] >>,
    << [name |-> "q", contents |-> 1], [name |-> "p", contents |-> 2] >> }
ParentArgs == {Undefined, FX}

\* (a variant for comparison: the default is the remote's default branch)
ParentOfDefaultBranch(parentBranch) ==
  IF parentBranch = Undefined THEN DefaultBranch ELSE parentBranch

\* parentBranch = config.baseBranch: the default stands in for undefined only
ParentOf(parentBranch) ==
  IF parentBranch = Undefined THEN config.baseBranch ELSE parentBranch

\* (a variant for comparison: the files written before the branch is checked
\* out from its parent)
CommitFilesScriptWriteFirst(branchName, files, parentBranch) ==
  << [c |-> "reset"] >>
  \o [i \in 1..Len(files) |->
        [c |-> "writeFile", name |-> files[i].name, contents |-> files[i].contents]]
  \o << [c |-> "checkoutB", b |-> branchName, ref |-> OriginRef(parentBranch)],
        [c |-> "add", names |-> {files[i].name : i \in 1..Len(files)}],
        [c |-> "commit"],
        [c |-> "pushForce", b |-> branchName] >>

CommitFilesScript(branchName, files, parentBranch) ==
  << [c |-> "reset"],
     [c |-> "checkoutB", b |-> branchName, ref |-> OriginRef(parentBranch)] >>
  \o [i \in 1..Len(files) |->
        [c |-> "writeFile", name |-> files[i].name, contents |-> files[i].contents]]
  \o << [c |-> "add", names |-> {files[i].name : i \in 1..Len(files)}],
        [c |-> "commit"],
        [c |-> "pushForce", b |-> branchName] >>

CommitFilesToBranch(branchName, files, parentArg, failAt) ==
  LET script == CommitFilesScript(branchName, files, ParentOf(parentArg))
      r == RunBody(script, failAt)
  IN /\ inited
     /\ FailChoice(script, failAt)
     /\ UNCHANGED <<config, git, inited>>
     /\ Finish(r.s, Outcome("commitFilesToBranch",
                            [branchName |-> branchName, files |-> files,
                             parentBranch |-> parentArg],
                            script, failAt, r))

\* --------------------------------------------------------------- mergeBranch
MergeBranchScript(branchName) ==
  << [c |-> "reset"],
     [c |-> "checkoutB", b |-> branchName, ref |-> OriginRef(branchName)],
     [c |-> "checkout", b |-> config.baseBranch],
     [c |-> "merge", b |-> branchName],
     [c |-> "push", b |-> config.baseBranch] >>

MergeBranch(branchName, failAt) ==
  LET script == MergeBranchScript(branchName)
      r == RunBody(script, failAt)
  IN /\ inited
     /\ FailChoice(script, failAt)
     /\ UNCHANGED <<config, git, inited>>
     /\ Finish(r.s, Outcome("mergeBranch", [branchName |-> branchName],
                            script, failAt, r))

\* -------------------------------------------------------------- deleteBranch
\* (a variant for comparison: the local deletion made first, the remote one
\* after it)
DeleteBranchLocalFirst(branchName, failAt) ==
  LET script == << [c |-> "deleteLocal", b |-> branchName],
                   [c |-> "pushDelete", b |-> branchName] >>
      r1 == RunBody(SubSeq(script, 1, 1), failAt)
      r2 == Run(r1.s, script, failAt, 2)
  IN /\ inited
     /\ FailChoice(script, failAt)
     /\ UNCHANGED <<config, git, inited>>
     /\ Finish(r2.s,
               [op |-> "deleteBranch", args |-> [branchName |-> branchName],
                ok |-> r2.ok, ret |-> Undefined, calls |-> Calls(script, 2),
                env |-> (failAt = 2), localDeleted |-> r1.ok])

\* the remote deletion is awaited bare, the local one inside try/catch
DeleteBranch(branchName, failAt) ==
  LET script == << [c |-> "pushDelete", b |-> branchName],
                   [c |-> "deleteLocal", b |-> branchName] >>
      r1 == RunBody(SubSeq(script, 1, 1), failAt)
      r2 == Run(r1.s, script, failAt, 2)
  IN /\ inited
     /\ FailChoice(script, failAt)
     /\ UNCHANGED <<config, git, inited>>
     /\ Finish(IF r1.ok THEN r2.s ELSE r1.s,
               [op |-> "deleteBranch", args |-> [branchName |-> branchName],
                ok |-> r1.ok, ret |-> Undefined,
                calls |-> IF r1.ok THEN Calls(script, 2) ELSE Calls(script, r1.n),
                env |-> (failAt = 1),
                localDeleted |-> (r1.ok /\ r2.ok)])

\* ------------------------------------------------------------- setBaseBranch
NameArgs == BranchNames \cup {Undefined, Empty}

\* (a variant for comparison: the name assigned without the test of it)
SetBaseBranchUntested(branchName) ==
  /\ inited
  /\ config' = [config EXCEPT !.baseBranch = branchName]
  /\ UNCHANGED <<git, inited>>
  /\ Finish(Engine, [op |-> "setBaseBranch", args |-> [branchName |-> branchName],
                     ok |-> TRUE, ret |-> Undefined, calls |-> << >>, env |-> FALSE])

SetBaseBranch(branchName) ==
  /\ inited
  /\ config' = IF Truthy(branchName) THEN [config EXCEPT !.baseBranch = branchName]
               ELSE config
  /\ UNCHANGED <<git, inited>>
  /\ Finish(Engine, [op |-> "setBaseBranch", args |-> [branchName |-> branchName],
                     ok |-> TRUE, ret |-> Undefined, calls |-> << >>, env |-> FALSE])

\* ------------------------------------------------------------------ queries
\* the branches asked about
QueryBranches == {FX, FY}

\* (a variant for comparison: a query that first resets the working tree)
QueryAfterReset(op, args, ok, ret) ==
  /\ inited
  /\ res' = [op |-> op, args |-> args, ok |-> ok, ret |-> ret,
             calls |-> << >>, env |-> FALSE]
  /\ pre' = Snapshot
  /\ wc' = GitResetHard(Engine).s.wc
  /\ UNCHANGED <<rem, store, config, git, inited, nops, conc>>

\* A query leaves the repository and the config as they are; only its record
\* is new.  It is not counted in nops.
Query(op, args, ok, ret) ==
  /\ inited
  /\ res' = [op |-> op, args |-> args, ok |-> ok, ret |-> ret,
             calls |-> << >>, env |-> FALSE]
  /\ pre' = Snapshot
  /\ UNCHANGED <<rem, store, wc, config, git, inited, nops, conc>>

\* git show-branch origin/<b> succeeds
ShowBranchOk(w, branchName) == ResolveRef(w, OriginRef(branchName)) # NONE

\* (a variant for comparison: show-branch given the bare name, which a local
\* branch answers too)
branchExistsBareName(w, branchName) ==
  ResolveRef(w, branchName) # NONE \/ ResolveRef(w, OriginRef(branchName)) # NONE

\* branchExists: true if show-branch succeeds, false if it throws
branchExists(w, branchName) == ShowBranchOk(w, branchName)

BranchExists(branchName) ==
  Query("branchExists", [branchName |-> branchName], TRUE, branchExists(wc, branchName))

\* getBranchCommit: rev-parse origin/<b>, trimmed; NONE stands for its throwing
\* because the ref does not resolve
getBranchCommit(w, branchName) == ResolveRef(w, OriginRef(branchName))

GetBranchCommit(branchName) ==
  LET c == getBranchCommit(wc, branchName)
  IN Query("getBranchCommit", [branchName |-> branchName], c # NONE, c)

\* the lines git ls-tree -r --name-only prints: the paths of a tree, sorted
FileOrder == << "p", "q" >>
RECURSIVE LsTreeOut(_, _)
LsTreeOut(tree, i) ==
  IF i > Len(FileOrder) THEN Empty
  ELSE (IF tree[FileOrder[i]] # Absent THEN << FileOrder[i], "\n" >> ELSE Empty)
       \o LsTreeOut(tree, i + 1)

\* String.prototype.split on a one-character separator
RECURSIVE Split(_, _)
Split(s, sep) ==
  LET hits == {i \in 1..Len(s) : s[i] = sep}
  IN IF hits = {} THEN << s >>
     ELSE LET i == CHOOSE k \in hits : \A j \in hits : k <= j
          IN << SubSeq(s, 1, i - 1) >> \o Split(SubSeq(s, i + 1, Len(s)), sep)

\* .filter(Boolean) on strings: the empty ones go
FilterBoolean(seq) == SelectSeq(seq, LAMBDA x : x # Empty)

getFileList(w, st, base, branchName) ==
  LET branch == IF Truthy(branchName) THEN branchName ELSE base
  IN IF ~branchExists(w, branch) THEN << >>
     ELSE FilterBoolean(Split(LsTreeOut(TreeOf(st, ResolveRef(w, OriginRef(branch))), 1),
                              "\n"))

GetFileList(branchName) ==
  Query("getFileList", [branchName |-> branchName], TRUE,
        getFileList(wc, store, config.baseBranch, branchName))

\* getFile: null (content Absent) for a missing branch or a failing git show
getFile(w, st, base, filePath, branchName) ==
  LET ref == OriginRef(IF Truthy(branchName) THEN branchName ELSE base)
      content == TreeOf(st, ResolveRef(w, ref))[filePath]
  IN IF Truthy(branchName) /\ ~branchExists(w, branchName)
       THEN [null |-> TRUE, content |-> Absent]
     ELSE IF content = Absent THEN [null |-> TRUE, content |-> Absent]
     ELSE [null |-> FALSE, content |-> content]

GetFile(filePath, branchName) ==
  Query("getFile", [filePath |-> filePath, branchName |-> branchName], TRUE,
        getFile(wc, store, config.baseBranch, filePath, branchName))

\* the names git branch --remotes lists, sorted: origin/<b> for each
\* remote-tracking ref
BranchOrder == << FX, FY, Main >>
RemoteBranches(kept) ==
  LET names == SelectSeq(BranchOrder, LAMBDA b : b \in kept)
  IN [i \in 1..Len(names) |-> OriginRef(names[i])]

MapLocalName(names) == [i \in 1..Len(names) |-> localName(names[i])]

\* (a variant for comparison: the local branches listed with the remote ones,
\* as git branch --all does)
getAllRenovateBranchesAndLocal(w, branchPrefix) ==
  SelectSeq(MapLocalName(RemoteBranches({b \in BranchNames :
                                           w.tracking[b] # NONE \/ w.localBr[b] # NONE})),
            LAMBDA n : StartsWith(n, branchPrefix))

getAllRenovateBranches(w, branchPrefix) ==
  SelectSeq(MapLocalName(RemoteBranches({b \in BranchNames : w.tracking[b] # NONE})),
            LAMBDA n : StartsWith(n, branchPrefix))

Prefixes == {Empty, << "f", "/" >>}

GetAllRenovateBranches(branchPrefix) ==
  Query("getAllRenovateBranches", [branchPrefix |-> branchPrefix], TRUE,
        getAllRenovateBranches(wc, branchPrefix))

\* git branch --remotes --contains <base>: the remote-tracking branches whose tip
\* contains the commit the name <base> resolves to
BranchesContaining(w, st, base) ==
  RemoteBranches({b \in BranchNames :
                    /\ w.tracking[b] # NONE
                    /\ Contains(st, w.tracking[b], ResolveRef(w, base))})

Includes(seq, x) == \E i \in 1..Len(seq) : seq[i] = x

isBranchStale(w, st, base, branchName) ==
  ~Includes(MapLocalName(BranchesContaining(w, st, base)), branchName)

\* isBranchStale throws when git cannot resolve the base name
IsBranchStale(branchName) ==
  LET ok == ResolveRef(wc, config.baseBranch) # NONE
  IN Query("isBranchStale", [branchName |-> branchName], ok,
           IF ok THEN isBranchStale(wc, store, config.baseBranch, branchName)
           ELSE FALSE)

\* the author time of a commit in seconds, the Date (milliseconds) parsed from
\* git's %ai print of it, and the Date of the moment of the call
AuthorTime(c) == c
MsPerSecond == 1000
\* (a variant for comparison: the seconds taken for milliseconds)
DateParseSeconds(seconds) == seconds
DateParse(seconds) == seconds * MsPerSecond
Now == (Len(store) + 1) * MsPerSecond + 1

getBranchLastCommitTime(w, branchName) ==
  LET c == ResolveRef(w, OriginRef(branchName))
  IN IF c # NONE THEN DateParse(AuthorTime(c)) ELSE Now

GetBranchLastCommitTime(branchName) ==
  Query("getBranchLastCommitTime", [branchName |-> branchName], TRUE,
        getBranchLastCommitTime(wc, branchName))

\* git log -n 10 from HEAD: the commits reachable from it, newest first
LogLimit == 10
RECURSIVE Newest(_, _)
Newest(cs, n) ==
  IF cs = {} \/ n = 0 THEN << >>
  ELSE LET c == CHOOSE x \in cs : \A y \in cs : y <= x
       IN << c >> \o Newest(cs \ {c}, n - 1)

GetCommitMessages ==
  LET h == HeadCommit(wc)
  IN Query("getCommitMessages", << >>, h # NONE,
           Newest(Ancestors(store, h), LogLimit))

\* The caller's protocol: initRepo first, and the other functions once it has
\* completed.
CanCall == nops < MaxOps /\ ~Asked
CanAsk == inited /\ ~Asked

Next ==
  \/ CanCall /\ \E args \in InitArgs, testMode \in BOOLEAN, f1 \in 0..4, f2 \in 0..7 :
                  InitRepo(args, testMode, f1, f2)
  \/ CanCall /\ inited /\ \E b \in BranchNames, sha \in 1..Len(store), f \in 0..3 :
                            CreateBranch(b, sha, f)
  \/ CanCall /\ inited /\ \E b \in BranchNames, files \in FileLists,
                             parent \in ParentArgs, f \in 0..7 :
                            CommitFilesToBranch(b, files, parent, f)
  \/ CanCall /\ inited /\ \E b \in BranchNames, f \in 0..5 : MergeBranch(b, f)
  \/ CanCall /\ inited /\ \E b \in BranchNames, f \in 0..2 : DeleteBranch(b, f)
  \/ CanCall /\ inited /\ \E b \in NameArgs : SetBaseBranch(b)
  \/ CanAsk /\ \E b \in QueryBranches : BranchExists(b)
  \/ CanAsk /\ \E b \in QueryBranches : GetBranchCommit(b)
  \/ CanAsk /\ \E b \in {Undefined, FY} : GetFileList(b)
  \/ CanAsk /\ \E path \in {"q"}, b \in {Undefined} \cup QueryBranches : GetFile(path, b)
  \/ CanAsk /\ \E prefix \in Prefixes : GetAllRenovateBranches(prefix)
  \/ CanAsk /\ \E b \in QueryBranches : IsBranchStale(b)
  \/ CanAsk /\ \E b \in QueryBranches : GetBranchLastCommitTime(b)
  \/ CanAsk /\ GetCommitMessages

Spec == Init /\ [][Next]_vars

\* ------------------------------------------------- calls made without await
\* Two calls of commitFilesToBranch made on the one instance without awaiting
\* the first: each is suspended at every await, and the engine runs one call at
\* a time, so the steps of the two interleave call by call on the one working
\* copy.  The calls are made right after an initRepo({url}) that cloned into an
\* empty directory.
ConcArgs == [url |-> <<"url1">>, baseBranch |-> Undefined, gitAuthor |-> Undefined]
ConcStart ==
  Run([rem |-> [NoRefs EXCEPT ![Main] = 1, ![FX] = 2], store |-> Store0, wc |-> NoWc],
      CloneScript(ConcArgs) \o BaseScript(ConcArgs), 0, 1)

\* a call in progress: its arguments, the parent its default parameter gave it
\* when it was made, and the next step of its body
ConcCall(branchName, files, base) ==
  [args |-> [branchName |-> branchName, files |-> files, parentBranch |-> Undefined],
   parent |-> base, pc |-> 1, done |-> FALSE, ok |-> FALSE]

ConcInit ==
  /\ rem = ConcStart.s.rem
  /\ store = ConcStart.s.store
  /\ wc = ConcStart.s.wc
  /\ config = [SpreadArgs(ConcArgs) EXCEPT
                 !.baseBranch = ResolveBaseBranch(Undefined, ConcStart.s.wc)]
  /\ git = 1
  /\ inited = TRUE
  /\ res = [op |-> "initRepo", args |-> ConcArgs, ok |-> TRUE, ret |-> Undefined,
            calls |-> Calls(CloneScript(ConcArgs) \o BaseScript(ConcArgs), ConcStart.n),
            env |-> FALSE, testMode |-> FALSE, failRefresh |-> 0]
  /\ pre = [rem |-> ConcStart.s.rem, wc |-> NoWc, config |-> SpreadArgs(ConcArgs),
            git |-> 0, n |-> Len(Store0)]
  /\ nops = 1
  /\ \E fa \in FileLists, fb \in FileLists :
       conc = [calls |-> << ConcCall(FY, fa, ResolveBaseBranch(Undefined, ConcStart.s.wc)),
                            ConcCall(FX, fb, ResolveBaseBranch(Undefined, ConcStart.s.wc)) >>,
               serial |-> TRUE]

\* the next awaited call of call i runs; the call ends when that fails or was
\* its last.  serial records that no call has yet taken a step while another
\* was between its first step and its end.
ConcStep(i) ==
  LET c == conc.calls[i]
      script == CommitFilesScript(c.args.branchName, c.args.files, c.parent)
      r == Exec(Engine, script[c.pc])
      last == c.pc = Len(script)
      alone == \A j \in 1..Len(conc.calls) :
                 j # i => (conc.calls[j].pc = 1 \/ conc.calls[j].done)
  IN /\ ~c.done
     /\ rem' = r.s.rem
     /\ store' = r.s.store
     /\ wc' = r.s.wc
     /\ conc' = [calls |-> [conc.calls EXCEPT
                              ![i] = [c EXCEPT !.pc = IF r.ok THEN c.pc + 1 ELSE c.pc,
                                               !.done = ~r.ok \/ last,
                                               !.ok = r.ok /\ last]],
                 serial |-> conc.serial /\ alone]
     /\ UNCHANGED <<config, git, inited, res, pre, nops>>

ConcNext == \E i \in 1..2 : ConcStep(i)

SpecConc == ConcInit /\ [][ConcNext]_vars

\* ================================================================== claims
Did(op) == res.op = op /\ res.ok

\* the parent branch a commitFilesToBranch call recorded in r, begun in state
\* p, branched from
ParentIn(r, p) ==
  IF r.args.parentBranch = Undefined THEN p.config.baseBranch ELSE r.args.parentBranch

\* the tree that has the given files at their given contents and is tree
\* everywhere else
Overlay(tree, files) ==
  [f \in Files |->
     LET hits == {i \in 1..Len(files) : files[i].name = f}
     IN IF hits = {} THEN tree[f]
        ELSE files[CHOOSE i \in hits : \A j \in hits : j <= i].contents]

\* ------------------------------------------------------------------------ C1
\* C1: whenever createBranch(b, sha) has completed without an error, whatever
\* the state it was called in (b absent, or already there locally or remotely,
\* at sha or elsewhere), getBranchCommit(b) returns sha; this covers a second
\* createBranch(b, sha), which leaves the result of the first.
C1_CreateBranchCommit ==
  Did("createBranch") => getBranchCommit(wc, res.args.branchName) = res.args.sha

\* a second createBranch(f/y, 1): the branch was at commit 1, locally and on the
\* remote, when the call began
C1_Witness ==
  /\ Did("createBranch")
  /\ res.args.branchName = FY /\ res.args.sha = 1
  /\ pre.rem[FY] = 1 /\ pre.wc.localBr[FY] = 1 /\ pre.wc.tracking[FY] = 1

\* ------------------------------------------------------------------------ C2
\* C2: when commitFilesToBranch completes twice in a row with the same
\* (branchName, files, parentBranch) and origin/<parentBranch> is where it was at
\* the first call, the tree of origin/<branchName>'s tip is the same after both.
C2_CommitIdempotent ==
  [][ ( /\ Did("commitFilesToBranch")
        /\ res'.op = "commitFilesToBranch" /\ res'.ok
        /\ res'.args = res.args
        /\ ParentIn(res', pre') = ParentIn(res, pre)
        /\ TrackingOf(pre'.wc, ParentIn(res', pre')) = TrackingOf(pre.wc, ParentIn(res, pre)) )
      => TreeOf(store', wc'.tracking[res'.args.branchName])
           = TreeOf(store, wc.tracking[res.args.branchName]) ]_vars

\* the second of two such calls on f/y has made a new tip with the tree of the old
C2_Witness ==
  /\ Did("commitFilesToBranch")
  /\ res.args.branchName = FY /\ ParentIn(res, pre) = Main
  /\ pre.wc.tracking[FY] # NONE
  /\ wc.tracking[FY] # pre.wc.tracking[FY]
  /\ store[pre.wc.tracking[FY]].parents = {pre.wc.tracking[Main]}
  /\ TreeOf(store, wc.tracking[FY]) = TreeOf(store, pre.wc.tracking[FY])
  /\ TreeOf(store, wc.tracking[FY]) # TreeOf(store, wc.tracking[Main])

\* ------------------------------------------------------------------------ C3
\* C3: isBranchStale(b) returns, and returns true exactly when b is not among the
\* remote-tracking branches that contain the tip of the base branch as the
\* working copy knows the remote's (origin/<baseBranch>): a branch at or ahead
\* of that tip is not stale, a branch the base has advanced past (by a merge, or
\* by commits a refresh or clone picked up) is stale.
C3_StaleIffBehindBase ==
  (res.op = "isBranchStale" /\ TrackingOf(wc, config.baseBranch) # NONE)
    => /\ res.ok
       /\ res.ret = ~( /\ TrackingOf(wc, res.args.branchName) # NONE
                       /\ Contains(store, TrackingOf(wc, res.args.branchName),
                                   TrackingOf(wc, config.baseBranch)) )

\* ------------------------------------------------------------------------ C4
\* C4: a mergeBranch(b) the environment fails no call of, called when origin/b
\* and origin/<baseBranch> exist and merge without conflict, completes, and the
\* remote's base branch then contains origin/b's tip; called when the two
\* conflict, it throws.
MergeCase(conflict) ==
  /\ res.op = "mergeBranch" /\ ~res.env
  /\ TrackingOf(pre.wc, res.args.branchName) # NONE
  /\ TrackingOf(pre.wc, pre.config.baseBranch) # NONE
  /\ conflict = MergeConflicts(store, TrackingOf(pre.wc, pre.config.baseBranch),
                               TrackingOf(pre.wc, res.args.branchName))

C4_MergeReachesRemote ==
  /\ MergeCase(FALSE) =>
       /\ res.ok
       /\ Contains(store, rem[config.baseBranch], TrackingOf(pre.wc, res.args.branchName))
  /\ MergeCase(TRUE) => ~res.ok

\* ------------------------------------------------------------------------ C5
\* C5: when deleteBranch(b) has deleted a branch b the remote had, it completes
\* without an error, whatever became of the local branch b, and branchExists(b)
\* is then false.
C5_DeleteThenAbsent ==
  ( /\ res.op = "deleteBranch"
    /\ pre.rem[res.args.branchName] # NONE
    /\ rem[res.args.branchName] = NONE )
    => res.ok /\ ~branchExists(wc, res.args.branchName)

\* the local branch was the checked-out one, and is still there
C5_Witness ==
  /\ Did("deleteBranch")
  /\ pre.rem[res.args.branchName] # NONE
  /\ pre.wc.head = res.args.branchName
  /\ ~res.localDeleted
  /\ wc.localBr[res.args.branchName] # NONE
  /\ ~branchExists(wc, res.args.branchName)

\* ------------------------------------------------------------------------ C6
\* C6: in every state after a completed initRepo, for every branch name b with
\* no remote-tracking ref origin/b, branchExists(b) is false, getFile(path, b)
\* is null for every path and getFileList(b) is the empty sequence; and a call
\* of one of the three with such a name has returned just that, without an
\* error.
NoSuchBranch == << "z" >>
C6_AbsentBranchReads ==
  inited =>
    /\ \A b \in BranchNames \cup {NoSuchBranch} :
         TrackingOf(wc, b) = NONE =>
           /\ ~branchExists(wc, b)
           /\ \A path \in Files : getFile(wc, store, config.baseBranch, path, b).null
           /\ getFileList(wc, store, config.baseBranch, b) = << >>
    /\ ( /\ res.op \in {"branchExists", "getFile", "getFileList"}
         /\ Truthy(res.args.branchName)
         /\ TrackingOf(wc, res.args.branchName) = NONE )
       => /\ res.ok
          /\ res.op = "branchExists" => res.ret = FALSE
          /\ res.op = "getFile" => res.ret.null
          /\ res.op = "getFileList" => res.ret = << >>

\* getFile asked of f/y, which is a local branch with the file but has no origin/f/y
C6_Witness ==
  /\ res.op = "getFile" /\ res.ok /\ res.ret.null
  /\ res.args.branchName = FY
  /\ wc.tracking[FY] = NONE
  /\ wc.localBr[FY] # NONE
  /\ TreeOf(store, wc.localBr[FY])[res.args.filePath] # Absent

\* ------------------------------------------------------------------------ C7
\* C7: initRepo attempts the refresh exactly when it is not in test mode and the
\* directory holds a working copy; it clones exactly when the refresh was not
\* attempted or one of its calls failed; a clone comes right after emptyDir and
\* the making of the handle, and without a clone the directory is not emptied;
\* and the call an initRepo fails on is never one of the refresh.
Has(calls, name) == \E i \in 1..Len(calls) : calls[i] = name
RefreshCalls == {"setUrl", "fetch", "prune"}
C7_CloneIffNoRefresh ==
  res.op = "initRepo" =>
    LET attempted == ~res.testMode /\ pre.wc.exists
        refreshFailed == attempted /\ res.failRefresh # 0
        calls == res.calls
    IN /\ attempted <=> Has(calls, "setUrl")
       /\ Has(calls, "clone") <=> (~attempted \/ refreshFailed)
       /\ \A i \in 1..Len(calls) :
            calls[i] = "clone" => i > 2 /\ calls[i - 1] = "Git" /\ calls[i - 2] = "emptyDir"
       /\ Has(calls, "emptyDir") => Has(calls, "clone")
       /\ ~res.ok => calls[Len(calls)] \notin RefreshCalls \cup {"Git", "emptyDir"}
       /\ (attempted /\ ~refreshFailed) => wc.localBr = pre.wc.localBr

\* the fetch of the refresh failed, and initRepo cloned and completed
C7_Witness ==
  /\ Did("initRepo")
  /\ res.failRefresh = 3
  /\ res.calls = << "Git", "setUrl", "fetch", "emptyDir", "Git", "clone", "symbolicRef" >>
  /\ wc.tracking = rem

\* ------------------------------------------------------------------------ C8
\* C8: once initRepo has completed, config.baseBranch is a branch name in every
\* state: after initRepo the one its config gave or, failing that, the branch
\* refs/remotes/origin/HEAD names; after setBaseBranch(name) the name if it is
\* non-empty and the one before if it is empty or undefined; after any other
\* call the one before.
C8_BaseBranchResolved ==
  inited =>
    /\ config.baseBranch \in BranchNames
    /\ res.op = "initRepo" =>
         config.baseBranch = IF res.args.baseBranch \in BranchNames
                             THEN res.args.baseBranch ELSE wc.originHead
    /\ res.op = "setBaseBranch" =>
         config.baseBranch = IF res.args.branchName \in BranchNames
                             THEN res.args.branchName ELSE pre.config.baseBranch
    /\ res.op \notin {"initRepo", "setBaseBranch"} =>
         config.baseBranch = pre.config.baseBranch

\* setBaseBranch('') after an initRepo that took the remote's default branch
C8_Witness ==
  /\ res.op = "setBaseBranch" /\ res.args.branchName = Empty
  /\ config.baseBranch = Main /\ wc.originHead = Main

\* ------------------------------------------------------------------------ C9
\* C9: in initRepo, mergeBranch, commitFilesToBranch and createBranch a call the
\* environment fails makes the function fail; a function that failed made its
\* calls in the order of its body up to the failing one and none after it, made
\* the failing call once, left the remote as it was and, unless the failing
\* call was the push, made no commit.
ScriptOf(r, p) ==
  CASE r.op = "mergeBranch" -> MergeBranchScript(r.args.branchName)
    [] r.op = "commitFilesToBranch" ->
         CommitFilesScript(r.args.branchName, r.args.files, ParentIn(r, p))
    [] r.op = "createBranch" -> CreateBranchScript(r.args.branchName, r.args.sha)

C9_FailurePropagates ==
  res.op \in {"initRepo", "mergeBranch", "commitFilesToBranch", "createBranch"} =>
    /\ res.env => ~res.ok
    /\ ~res.ok =>
         LET n == Len(res.calls)
         IN /\ n > 0
            /\ Cardinality({i \in 1..n : res.calls[i] = res.calls[n]}) = 1
            /\ rem = pre.rem
            /\ res.calls[n] \notin {"push", "pushForce"} => Len(store) = pre.n
            /\ res.op # "initRepo" =>
                 /\ n <= Len(ScriptOf(res, pre))
                 /\ res.calls = Calls(ScriptOf(res, pre), n)

\* a mergeBranch that failed on a conflicting merge and pushed nothing
C9_Witness ==
  /\ res.op = "mergeBranch" /\ ~res.ok /\ ~res.env
  /\ res.calls = << "reset", "checkoutB", "checkout", "merge" >>
  /\ MergeConflicts(store, HeadCommit(wc), LocalOf(wc, res.args.branchName))
  /\ rem = pre.rem

\* ----------------------------------------------------------------------- C10
\* C10: getBranchLastCommitTime(b) and getFile(path, b) return without an
\* error: the first the author time of origin/b's tip, in milliseconds, or the
\* time of the call when origin/b does not resolve; the second the content of
\* path in the tree of origin/b's tip (origin/<baseBranch>'s when b is not
\* given), or null when that ref or that path is not there.
C10_ReadsNeverThrow ==
  /\ res.op = "getBranchLastCommitTime" =>
       LET tip == TrackingOf(wc, res.args.branchName)
       IN /\ res.ok
          /\ res.ret = IF tip # NONE THEN AuthorTime(tip) * MsPerSecond ELSE Now
  /\ res.op = "getFile" =>
       LET b == IF res.args.branchName \in BranchNames THEN res.args.branchName
                ELSE config.baseBranch
           tip == TrackingOf(wc, b)
           there == tip # NONE /\ store[tip].tree[res.args.filePath] # Absent
       IN /\ res.ok
          /\ res.ret.null = ~there
          /\ there => res.ret.content = store[tip].tree[res.args.filePath]

\* the time of a branch that is on the remote, and not the time of the call
C10_Witness ==
  /\ res.op = "getBranchLastCommitTime" /\ res.ok
  /\ wc.tracking[res.args.branchName] # NONE
  /\ res.ret = wc.tracking[res.args.branchName] * MsPerSecond
  /\ res.ret # Now

\* ----------------------------------------------------------------------- C11
\* C11: of two commitFilesToBranch calls for different branches made on one
\* instance, when one call has run from its first step to its end before the
\* other took its first, every call that has ended has succeeded and pushed a
\* tip that is a child of the parent branch's tip with the parent's tree
\* overlaid with the call's own files, which is what either order of the two
\* gives; when their steps interleave, a state is reached that has a pushed tip
\* with another content (the witness).
ConcExpected(c) == Overlay(TreeOf(store, ConcStart.s.rem[c.parent]), c.args.files)
ConcAsSerial(c) ==
  LET tip == rem[c.args.branchName]
  IN /\ tip # NONE
     /\ TreeOf(store, tip) = ConcExpected(c)
     /\ tip = ConcStart.s.rem[c.parent] \/ store[tip].parents = {ConcStart.s.rem[c.parent]}

C11_SerialCallsAreSafe ==
  (conc # << >> /\ conc.serial) =>
    \A i \in 1..Len(conc.calls) :
      conc.calls[i].done => conc.calls[i].ok /\ ConcAsSerial(conc.calls[i])

\* both calls have ended without an error, their steps interleaved, and a branch
\* one of them pushed has a tip no serial order gives
C11_Witness ==
  /\ conc # << >> /\ ~conc.serial
  /\ \A i \in 1..2 : conc.calls[i].done /\ conc.calls[i].ok
  /\ \E i \in 1..2 : ~ConcAsSerial(conc.calls[i])

\* ----------------------------------------------------------------------- C12
\* C12: getAllRenovateBranches(prefix) returns without an error a list, free
\* of repetitions, of exactly the names b that have a remote-tracking ref
\* origin/b and start with prefix (a branch that is only local is not in it);
\* with origin/main and origin/f/x the only remote-tracking refs, the prefix
\* "f/" gives exactly <<f/x>>; and localName takes one leading origin/ off.
HasPrefix(name, prefix) ==
  Len(prefix) <= Len(name) /\ \A i \in 1..Len(prefix) : name[i] = prefix[i]

C12_AllBranchesExact ==
  /\ localName(OriginRef(OriginRef(FX))) = OriginRef(FX)
  /\ localName(FX) = FX
  /\ res.op = "getAllRenovateBranches" =>
       LET want == {b \in BranchNames :
                      wc.tracking[b] # NONE /\ HasPrefix(b, res.args.branchPrefix)}
       IN /\ res.ok
          /\ {res.ret[i] : i \in 1..Len(res.ret)} = want
          /\ Len(res.ret) = Cardinality(want)
          /\ ( /\ res.args.branchPrefix = << "f", "/" >>
               /\ {b \in BranchNames : wc.tracking[b] # NONE} = {Main, FX} )
             => res.ret = << FX >>

\* asked for "f/" with origin/main and origin/f/x there and f/y a local branch only
C12_Witness ==
  /\ res.op = "getAllRenovateBranches" /\ res.args.branchPrefix = << "f", "/" >>
  /\ wc.tracking[Main] # NONE /\ wc.tracking[FX] # NONE /\ wc.tracking[FY] = NONE
  /\ wc.localBr[FY] # NONE
  /\ res.ret = << FX >>

\* ----------------------------------------------------------------------- C13
\* C13: when commitFilesToBranch(name, files, message, parent) has completed
\* without an error, the remote's name and origin/<name> are at one commit,
\* whose tree is the tree origin/<parent> had when the call began with the given
\* files at their given contents and nothing else changed, whatever the branch
\* held before and whatever earlier calls left in the index and working tree.
C13_CommitTreeIsOverlay ==
  Did("commitFilesToBranch") =>
    LET tip == wc.tracking[res.args.branchName]
    IN /\ tip # NONE
       /\ rem[res.args.branchName] = tip
       /\ TreeOf(store, tip) =
            Overlay(TreeOf(store, TrackingOf(pre.wc, ParentIn(res, pre))), res.args.files)

\* the call began with a file in the working tree that an earlier failed call
\* had written, on a branch that held another tree, and the new tip has neither
C13_Witness ==
  /\ Did("commitFilesToBranch")
  /\ pre.wc.tracking[res.args.branchName] # NONE
  /\ TreeOf(store, pre.wc.tracking[res.args.branchName])
       # TreeOf(store, wc.tracking[res.args.branchName])
  /\ \E f \in Files :
       /\ pre.wc.wt[f] # Absent
       /\ pre.wc.wt[f] # TreeOf(store, HeadCommit(pre.wc))[f]
       /\ pre.wc.wt[f] # TreeOf(store, wc.tracking[res.args.branchName])[f]

\* ----------------------------------------------------------------------- C14
\* C14: in every state after a completed initRepo, for every branch b that is
\* there as a local branch and has no remote-tracking ref origin/b, whatever
\* the local branch holds: branchExists(b) is false, getFile(path, b) is null
\* for every path, getFileList(b) is empty, and getAllRenovateBranches lists b
\* for no prefix.
LocalOnly(b) == LocalOf(wc, b) # NONE /\ TrackingOf(wc, b) = NONE

C14_QueriesIgnoreLocalBranches ==
  inited =>
    \A b \in BranchNames :
      LocalOnly(b) =>
        /\ branchExists(wc, b) = FALSE
        /\ \A path \in Files :
             getFile(wc, store, config.baseBranch, path, b) = [null |-> TRUE, content |-> Absent]
        /\ Len(getFileList(wc, store, config.baseBranch, b)) = 0
        /\ \A prefix \in Prefixes \cup {b} :
             ~Includes(getAllRenovateBranches(wc, prefix), b)
        /\ res.op = "getAllRenovateBranches" => ~Includes(res.ret, b)

\* all branches asked for after a deleteBranch(f/x) that deleted the remote's
\* f/x and could not delete the local one
C14_Witness ==
  /\ res.op = "getAllRenovateBranches" /\ res.args.branchPrefix = Empty
  /\ LocalOnly(FX) /\ rem[FX] = NONE
  /\ TreeOf(store, wc.localBr[FX])["q"] # Absent
  /\ ~Includes(res.ret, FX)

\* ----------------------------------------------------------------------- C15
\* C15: deleteBranch(b) makes the remote deletion its first call.  When that
\* fails (it does when the remote has no b) deleteBranch fails, makes no other
\* call, and the working copy, local branch b included, and the remote are as
\* before.  When it succeeds the local deletion is the second call, and
\* deleteBranch completes whether or not that one fails.
C15_RemoteDeletionFirst ==
  res.op = "deleteBranch" =>
    LET b == res.args.branchName
    IN /\ Len(res.calls) >= 1 /\ res.calls[1] = "pushDelete"
       /\ pre.rem[b] = NONE => ~res.ok
       /\ res.env => ~res.ok
       /\ ~res.ok => /\ res.calls = << "pushDelete" >>
                     /\ wc = pre.wc
                     /\ rem = pre.rem
       /\ res.ok => /\ res.calls = << "pushDelete", "deleteLocal" >>
                    /\ pre.rem[b] # NONE /\ rem[b] = NONE
                    /\ ~res.localDeleted => wc.localBr = pre.wc.localBr

\* deleteBranch(b) failed for a b the remote does not have, and the local
\* branch b is still there
C15_Witness ==
  /\ res.op = "deleteBranch" /\ ~res.ok /\ ~res.env
  /\ pre.rem[res.args.branchName] = NONE
  /\ pre.wc.localBr[res.args.branchName] # NONE
  /\ wc.localBr[res.args.branchName] = pre.wc.localBr[res.args.branchName]

\* ----------------------------------------------------------------------- C16
\* C16: when an initRepo(config2) made on an instance that has been initialised
\* before has completed, config holds config2's url and gitAuthor (undefined
\* where config2 has none); config.baseBranch is config2's or, where config2 has
\* none, the branch refs/remotes/origin/HEAD names, whatever it was before; the
\* working copy's remote url is config2's; and git holds a handle made by this
\* call.
C16_ReinitDiscardsState ==
  (Did("initRepo") /\ pre.git # 0) =>
    /\ config.url = res.args.url
    /\ config.gitAuthor = res.args.gitAuthor
    /\ config.baseBranch = IF res.args.baseBranch \in BranchNames
                           THEN res.args.baseBranch ELSE wc.originHead
    /\ wc.url = res.args.url
    /\ git > pre.git

\* a second initRepo, with a config of nothing but the url, refreshed the
\* working copy of a first that had a base branch f/x and an author
C16_Witness ==
  /\ Did("initRepo") /\ pre.git # 0
  /\ pre.config.baseBranch = FX /\ pre.config.gitAuthor # Undefined
  /\ res.args.baseBranch = Undefined /\ res.args.gitAuthor = Undefined
  /\ ~Has(res.calls, "clone")
  /\ config.baseBranch = Main /\ config.gitAuthor = Undefined

\* ----------------------------------------------------------------------- C17
\* C17 (a call the environment fails has had no effect): with nobody else
\* changing the remote after initRepo has completed, in
\* every state from then on, whatever calls were made and whether they
\* completed or failed at some step, every branch b has a remote-tracking ref
\* origin/b exactly when the remote has b, and the two are at the same commit.
C17_TrackingMirrorsRemote ==
  inited =>
    \A b \in BranchNames :
      /\ (wc.tracking[b] # NONE) <=> (rem[b] # NONE)
      /\ rem[b] # NONE => wc.tracking[b] = rem[b]

\* after a branch was made and another deleted
C17_Witness ==
  /\ inited /\ Did("deleteBranch")
  /\ rem[FX] = NONE /\ wc.tracking[FX] = NONE /\ pre.rem[FX] # NONE
  /\ rem[FY] # NONE /\ wc.tracking[FY] = rem[FY]
  /\ rem[FY] > 1

\* ----------------------------------------------------------------------- C18
\* C18: whether it completes or fails, createBranch(b, sha),
\* commitFilesToBranch(b, ...) and deleteBranch(b) leave every branch of the
\* remote other than b where it was, and mergeBranch(b) leaves every branch of
\* the remote other than the base branch where it was, b among them.
Touched(r, p) ==
  IF r.op = "mergeBranch" THEN p.config.baseBranch ELSE r.args.branchName

C18_OneRemoteBranchChanges ==
  res.op \in {"createBranch", "commitFilesToBranch", "deleteBranch", "mergeBranch"} =>
    \A b \in BranchNames : b # Touched(res, pre) => rem[b] = pre.rem[b]

\* a mergeBranch(b) that moved the remote's base branch and left the remote's b
C18_Witness ==
  /\ Did("mergeBranch")
  /\ res.args.branchName # pre.config.baseBranch
  /\ rem[pre.config.baseBranch] # pre.rem[pre.config.baseBranch]
  /\ rem[res.args.branchName] = pre.rem[res.args.branchName]
  /\ rem[res.args.branchName] # NONE

\* ----------------------------------------------------------------------- C19
\* C19: a step that is a call of branchExists, getFile, getFileList,
\* getAllRenovateBranches, isBranchStale, getBranchCommit,
\* getBranchLastCommitTime or getCommitMessages, returning or throwing, leaves
\* the remote, the commits, the working copy (remote-tracking refs, local
\* branches, HEAD, index, working tree), config and the handle as they were.
C19_QueriesChangeNothing ==
  [][ res'.op \in QueryOps =>
        /\ rem' = rem /\ store' = store /\ wc' = wc
        /\ config' = config /\ git' = git /\ inited' = inited ]_vars

\* a getBranchCommit that threw, asked with changes an earlier failed call left
\* in the working tree, which are still there
C19_Witness ==
  /\ res.op = "getBranchCommit" /\ ~res.ok
  /\ wc.wt # TreeOf(store, HeadCommit(wc))
  /\ wc = pre.wc /\ rem = pre.rem /\ config = pre.config /\ git = pre.git

\* ----------------------------------------------------------------------- C20
\* C20: the base branch a call uses is config.baseBranch as it is when the call
\* is made.  A completed commitFilesToBranch without parentBranch leaves
\* origin/<name> at a new child of the tip origin/<baseBranch> had, or at that
\* tip when the files change nothing.  getFile and getFileList without a branch
\* return the content and the paths of the tree of origin/<baseBranch>.  A
\* completed mergeBranch(b) leaves <baseBranch> checked out and pushed, with
\* origin/b's tip in it.  isBranchStale(b) returns whether origin/b lacks the
\* commit the name <baseBranch> resolves to.
C20_BaseBranchInForce ==
  /\ (Did("commitFilesToBranch") /\ res.args.parentBranch = Undefined) =>
       LET tip == wc.tracking[res.args.branchName]
           from == TrackingOf(pre.wc, pre.config.baseBranch)
       IN /\ from # NONE /\ tip # NONE
          /\ \/ tip = from
             \/ tip > pre.n /\ store[tip].parents = {from}
  /\ (res.op = "getFile" /\ res.args.branchName = Undefined) =>
       LET from == TrackingOf(wc, config.baseBranch)
       IN res.ret.content = TreeOf(store, from)[res.args.filePath]
  /\ (res.op = "getFileList" /\ res.args.branchName = Undefined) =>
       LET from == TrackingOf(wc, config.baseBranch)
       IN {res.ret[i] : i \in 1..Len(res.ret)}
            = {<< f >> : f \in {g \in Files : TreeOf(store, from)[g] # Absent}}
  /\ Did("mergeBranch") =>
       LET base == pre.config.baseBranch
       IN /\ wc.head = base
          /\ rem[base] = wc.localBr[base]
          /\ Contains(store, rem[base], TrackingOf(pre.wc, res.args.branchName))
  /\ Did("isBranchStale") =>
       LET tip == TrackingOf(wc, res.args.branchName)
       IN res.ret = ~(tip # NONE /\ Contains(store, tip, ResolveRef(wc, config.baseBranch)))

\* a commitFilesToBranch without parentBranch, made after setBaseBranch(f/x)
\* replaced the base branch initRepo had resolved, branched from origin/f/x
C20_Witness ==
  /\ Did("commitFilesToBranch") /\ res.args.parentBranch = Undefined
  /\ pre.config.baseBranch = FX /\ pre.config.gitAuthor = Undefined
  /\ res.args.branchName = FY
  /\ store[wc.tracking[FY]].parents = {pre.wc.tracking[FX]}
  /\ pre.wc.tracking[FX] # pre.wc.tracking[Main]

====
